---- MODULE Spec2Model ----
(***************************************************************************)
(* Aptotect: a line-pattern security scanner for Move sources.            *)
(*                                                                         *)
(* A source text is the sequence of its lines (the result of               *)
(* code.lines()); a line is the sequence of its lexical tokens.  Every     *)
(* token is a non-empty run of characters; the characters '=', '+', '-',   *)
(* '/', ';', '(' and ')' occur only as the one-character tokens of the     *)
(* same name, so the regular expressions of src/patterns/mod.rs are        *)
(* evaluated on tokens exactly as the regex crate evaluates them on the    *)
(* characters.  A path is the token sequence of its file name.             *)
(***************************************************************************)
EXTENDS Integers, Sequences, FiniteSets

VARIABLES
    call,                \* "main": the command-line run; "std_check": IncorrectStdFunctionPattern.check(code)
    fs,                  \* the file system under args.path
    pc,                  \* position of the run
    idx,                 \* analyze_directory: 1-based position in the read_dir enumeration
    all_vulnerabilities, \* analyze_directory: the accumulator
    result,              \* the Result the scan returned: <<"None">>, <<"Ok", findings>>, <<"Err", cause>>
    reads,               \* the paths handed to read_file so far, in order
    code,                \* std_check: the lines of the text under scan
    i,                   \* std_check: 0-based index of the next line
    extracted,           \* std_check: the automaton flag
    vulnerabilities,     \* std_check: the findings pushed so far
    format,              \* main: args.format
    output,              \* main: the report printed, <<"None">> before
    scans                \* the analyze_contract calls that returned Ok: the source read and the findings

vars == <<call, fs, pc, idx, all_vulnerabilities, result, reads,
          code, i, extracted, vulnerabilities, format, output, scans>>

-----------------------------------------------------------------------------
(* Bounds of the model *)

\* longest text of the dense texts (every line drawn from LineKinds)
MaxDense == 3
\* length of the sparse texts (blank but for two lines)
MaxLines == 21
\* most entries of a scanned directory
MaxEntries == 3
\* longest text handed to the stateful detector
MaxStdLines == 3

(* Program constants *)

\* for j in i+1..min(i+5, lines.len())
ReentrancyWindowEnd == 5
\* .skip(max(0, i - 10))
OwnerWindowBack == 10
\* .take(20)
OwnerWindowSpan == 20

Min(a, b) == IF a < b THEN a ELSE b
Max(a, b) == IF a > b THEN a ELSE b
Range(s) == {s[k] : k \in 1..Len(s)}

-----------------------------------------------------------------------------
(* Findings *)

Location_ZeroBased(line) ==
    [file |-> <<"contract", ".", "move">>, line |-> line - 1, column |-> 0]
Location(line) == [file |-> <<"contract", ".", "move">>, line |-> line, column |-> 0]

Vulnerability(severity, title, line) ==
    [severity |-> severity, title |-> title, location |-> Location(line)]

ReentrancyName == "Reentrancy Vulnerability"
IntegerOverflowName == "Integer Overflow Vulnerability"
UncheckedArithmeticName == "Unchecked Arithmetic Vulnerability"
MissingErrorHandlingName == "Missing Error Handling Vulnerability"
AccessControlName == "Access Control Vulnerability"
IncorrectStdFunctionName == "Incorrect Standard Function Usage Vulnerability"

-----------------------------------------------------------------------------
(* The patterns, on one line *)

\* str::contains for a needle that is one token
contains(line, tok) == \E k \in 1..Len(line) : line[k] = tok

\* Regex coin::transfer|account::withdraw
external_call_pattern(line) ==
    \E k \in 1..Len(line) : line[k] \in {"coin::transfer", "account::withdraw"}

\* Regex borrow_global_mut|move_to|Table::add
state_change_pattern(line) ==
    \E k \in 1..Len(line) : line[k] \in {"borrow_global_mut", "move_to", "Table::add"}

\* Regex [=]\s*[^;\n]+<op>[^;\n]+; : an '=', at least one character that is
\* not ';', the operator, at least one character that is not ';', and a ';'
assign_op_pattern(line, op) ==
    \E e \in 1..Len(line) : \E p \in (e + 2)..Len(line) : \E s \in (p + 2)..Len(line) :
        /\ line[e] = "="
        /\ line[p] = op
        /\ line[s] = ";"
        /\ \A k \in (e + 1)..(s - 1) : line[k] # ";"

arithmetic_pattern(line) == assign_op_pattern(line, "+")
subtract_pattern(line) == assign_op_pattern(line, "-")
division_pattern(line) == assign_op_pattern(line, "/")

\* Regex assert!\(.*owner.*\)
owner_check_pattern(line) ==
    \E a \in 1..Len(line) : \E o \in (a + 2)..Len(line) : \E c \in (o + 1)..Len(line) :
        /\ line[a] = "assert!"
        /\ line[a + 1] = "("
        /\ line[o] = "owner"
        /\ line[c] = ")"

-----------------------------------------------------------------------------
(* The detectors: check(code), code given as its lines; k is the 0-based    *)
(* index of the enumerate() loops.                                          *)

\* ReentrancyPattern: the inner loop, for j in i+1..min(i+5, lines.len())
RECURSIVE ReentrancyForward(_, _, _)
ReentrancyForward_NoBreak(lines, k, j) ==
    IF j >= Min(k + ReentrancyWindowEnd, Len(lines)) THEN <<>>
    ELSE (IF state_change_pattern(lines[j + 1])
          THEN <<Vulnerability("Critical", ReentrancyName, k + 1)>> ELSE <<>>)
         \o ReentrancyForward(lines, k, j + 1)
ReentrancyForward_Wide(lines, k, j) ==
    IF j >= Min(k + ReentrancyWindowEnd + 1, Len(lines)) THEN <<>>
    ELSE IF state_change_pattern(lines[j + 1])
         THEN <<Vulnerability("Critical", ReentrancyName, k + 1)>>
         ELSE ReentrancyForward(lines, k, j + 1)
ReentrancyForward(lines, k, j) ==
    IF j >= Min(k + ReentrancyWindowEnd, Len(lines)) THEN <<>>
    ELSE IF state_change_pattern(lines[j + 1])
         THEN <<Vulnerability("Critical", ReentrancyName, k + 1)>>
         ELSE ReentrancyForward(lines, k, j + 1)

RECURSIVE ReentrancyFrom(_, _)
ReentrancyFrom(lines, k) ==
    IF k >= Len(lines) THEN <<>>
    ELSE (IF external_call_pattern(lines[k + 1])
          THEN ReentrancyForward(lines, k, k + 1) ELSE <<>>)
         \o ReentrancyFrom(lines, k + 1)

ReentrancyCheck(lines) == ReentrancyFrom(lines, 0)

\* IntegerOverflowPattern
IntegerOverflowFlags_NoGuard(line) == arithmetic_pattern(line)
IntegerOverflowFlags(line) == arithmetic_pattern(line) /\ ~contains(line, "assert!")

RECURSIVE IntegerOverflowFrom(_, _)
IntegerOverflowFrom(lines, k) ==
    IF k >= Len(lines) THEN <<>>
    ELSE (IF IntegerOverflowFlags(lines[k + 1])
          THEN <<Vulnerability("High", IntegerOverflowName, k + 1)>> ELSE <<>>)
         \o IntegerOverflowFrom(lines, k + 1)

IntegerOverflowCheck(lines) == IntegerOverflowFrom(lines, 0)

\* UncheckedArithmeticPattern
UncheckedArithmeticFlags(line) == subtract_pattern(line) /\ ~contains(line, "assert!")

RECURSIVE UncheckedArithmeticFrom(_, _)
UncheckedArithmeticFrom(lines, k) ==
    IF k >= Len(lines) THEN <<>>
    ELSE (IF UncheckedArithmeticFlags(lines[k + 1])
          THEN <<Vulnerability("High", UncheckedArithmeticName, k + 1)>> ELSE <<>>)
         \o UncheckedArithmeticFrom(lines, k + 1)

UncheckedArithmeticCheck(lines) == UncheckedArithmeticFrom(lines, 0)

\* MissingErrorHandlingPattern
MissingErrorHandlingFlags(line) == division_pattern(line) /\ ~contains(line, "assert!")

RECURSIVE MissingErrorHandlingFrom(_, _)
MissingErrorHandlingFrom(lines, k) ==
    IF k >= Len(lines) THEN <<>>
    ELSE (IF MissingErrorHandlingFlags(lines[k + 1])
          THEN <<Vulnerability("High", MissingErrorHandlingName, k + 1)>> ELSE <<>>)
         \o MissingErrorHandlingFrom(lines, k + 1)

MissingErrorHandlingCheck(lines) == MissingErrorHandlingFrom(lines, 0)

\* AccessControlPattern: the lines flagged by the other patterns
flagged_NoReentrancy(lines) ==
    {v.location.line : v \in Range(IntegerOverflowCheck(lines))}
    \cup {v.location.line : v \in Range(UncheckedArithmeticCheck(lines))}
    \cup {v.location.line : v \in Range(MissingErrorHandlingCheck(lines))}
flagged(lines) ==
    {v.location.line : v \in Range(IntegerOverflowCheck(lines))}
    \cup {v.location.line : v \in Range(UncheckedArithmeticCheck(lines))}
    \cup {v.location.line : v \in Range(MissingErrorHandlingCheck(lines))}
    \cup {v.location.line : v \in Range(ReentrancyCheck(lines))}

\* lines.iter().skip(max(0, i - 10)).take(20).any(owner_check_pattern)
has_owner_check_Centred(lines, k) ==
    \E n \in (Max(0, k - OwnerWindowBack) + 1)..Min(k + OwnerWindowBack, Len(lines)) :
        owner_check_pattern(lines[n])
has_owner_check(lines, k) ==
    \E n \in (Max(0, k - OwnerWindowBack) + 1)
                ..Min(Max(0, k - OwnerWindowBack) + OwnerWindowSpan, Len(lines)) :
        owner_check_pattern(lines[n])

RECURSIVE AccessControlFrom(_, _, _)
AccessControlFrom(lines, fl, k) ==
    IF k >= Len(lines) THEN <<>>
    ELSE (IF /\ state_change_pattern(lines[k + 1])
             /\ (k + 1) \notin fl
             /\ ~has_owner_check(lines, k)
          THEN <<Vulnerability("High", AccessControlName, k + 1)>> ELSE <<>>)
         \o AccessControlFrom(lines, fl, k + 1)

AccessControlCheck_Leak(lines) ==
    IntegerOverflowCheck(lines) \o UncheckedArithmeticCheck(lines)
    \o MissingErrorHandlingCheck(lines) \o ReentrancyCheck(lines)
    \o AccessControlFrom(lines, flagged(lines), 0)
AccessControlCheck(lines) == AccessControlFrom(lines, flagged(lines), 0)

-----------------------------------------------------------------------------
(* The analyzer *)

\* Analyzer::new: the registry, in its order
patterns_SpecOrder ==
    <<ReentrancyName, IntegerOverflowName, UncheckedArithmeticName,
      MissingErrorHandlingName, AccessControlName>>
patterns ==
    <<ReentrancyName, IntegerOverflowName, AccessControlName,
      UncheckedArithmeticName, MissingErrorHandlingName>>

\* dyn SecurityPattern::check
check(pattern, lines) ==
    CASE pattern = ReentrancyName -> ReentrancyCheck(lines)
      [] pattern = IntegerOverflowName -> IntegerOverflowCheck(lines)
      [] pattern = AccessControlName -> AccessControlCheck(lines)
      [] pattern = UncheckedArithmeticName -> UncheckedArithmeticCheck(lines)
      [] pattern = MissingErrorHandlingName -> MissingErrorHandlingCheck(lines)

\* for pattern in &self.patterns { vulnerabilities.extend(pattern.check(&source)) }
RECURSIVE RunPatterns(_, _)
RunPatterns(lines, n) ==
    IF n > Len(patterns) THEN <<>>
    ELSE check(patterns[n], lines) \o RunPatterns(lines, n + 1)

\* utils::read_file: std::fs::read_to_string fails on a directory and on an
\* unreadable file
read_file(node) ==
    IF node.kind = "file" /\ node.readable
    THEN <<"Ok", node.content>>
    ELSE <<"Err", "Failed to read file">>

\* Analyzer::analyze_contract
analyze_contract(node) ==
    IF read_file(node)[1] = "Err" THEN read_file(node)
    ELSE <<"Ok", RunPatterns(read_file(node)[2], 1)>>

\* Path::extension: the part of the file name after its last '.', none when
\* there is no '.' or the only one starts the name
extension(path) ==
    IF \E k \in 2..(Len(path) - 1) : path[k] = "."
    THEN LET last == CHOOSE k \in 2..(Len(path) - 1) :
                        /\ path[k] = "."
                        /\ \A m \in (k + 1)..Len(path) : path[m] # "."
         IN  SubSeq(path, last + 1, Len(path))
    ELSE <<>>

\* path.is_file() && path.extension().map_or(false, |ext| ext == "move")
selected_AnyKind(node) == extension(node.path) = <<"move">>
selected(node) == node.kind = "file" /\ extension(node.path) = <<"move">>

-----------------------------------------------------------------------------
(* Inputs: lines, texts, file systems *)

BlankLine == <<>>
AddLine == <<"total", "=", "a", "+", "b", ";">>
SubLine == <<"x", "=", "a", "-", "b", ";">>
DivLine == <<"x", "=", "a", "/", "b", ";">>
MixedLine == <<"x", "=", "a", "+", "b", "-", "c", "/", "d", ";">>
GuardedAddLine == <<"assert!", "(", "a", ")", ";", "x", "=", "a", "+", "b", ";">>
OwnerLine == <<"assert!", "(", "addr", "=", "=", "owner", ")", ";">>
TransferLine == <<"coin::transfer", "(", "a", ")", ";">>
MutateLine == <<"move_to", "(", "s", ")", ";">>
MutateAddLine == <<"r", "=", "borrow_global_mut", "(", "a", ")", "+", "b", ";">>
TransferMutateLine == <<"account::withdraw", "(", "Table::add", "(", "t", ")", ")", ";">>
CompoundAddLine == <<"x", "+", "=", "b", ";">>
UnterminatedAddLine == <<"x", "=", "a", "+", "b">>

LineKinds ==
    {BlankLine, AddLine, SubLine, DivLine, MixedLine, GuardedAddLine, OwnerLine,
     TransferLine, MutateLine, MutateAddLine, TransferMutateLine, CompoundAddLine,
     UnterminatedAddLine}

SparseKinds == {BlankLine, OwnerLine, TransferLine, MutateLine, TransferMutateLine}

DenseTexts == UNION {[1..n -> LineKinds] : n \in 0..MaxDense}

SparseTexts ==
    {[n \in 1..MaxLines |-> IF n = p THEN a ELSE IF n = q THEN b ELSE BlankLine] :
        <<p, a, q, b>> \in (1..MaxLines) \X SparseKinds \X (1..MaxLines) \X SparseKinds}

DirTexts == {<<>>, <<AddLine>>, <<MutateLine, SubLine>>}

ExtractLine == <<"v", "=", "option::extract", "(", "o", ")", ";">>
BorrowLine == <<"option::borrow", "(", "o", ")", ";">>
BorrowMutLine == <<"option::borrow_mut", "(", "o", ")", ";">>
ExtractBorrowLine == <<"option::extract", "(", "o", ")", ";", "option::borrow", "(", "o", ")", ";">>
BorrowExtractLine == <<"option::borrow", "(", "o", ")", ";", "option::extract", "(", "o", ")", ";">>

StdKinds ==
    {BlankLine, ExtractLine, BorrowLine, BorrowMutLine, ExtractBorrowLine, BorrowExtractLine}

StdTexts == UNION {[1..n -> StdKinds] : n \in 0..MaxStdLines}

File(path, readable, content) ==
    [path |-> path, kind |-> "file", readable |-> readable, content |-> content]
Dir(path, readable) ==
    [path |-> path, kind |-> "dir", readable |-> readable, content |-> <<>>]

Stems == <<"a", "b", "c", "d", "e">>

\* what the n-th entry of a directory may be
EntryChoices(n) ==
    {File(<<Stems[n], ".", "move">>, TRUE, t) : t \in DirTexts}
    \cup {File(<<Stems[n], ".", "move">>, FALSE, <<>>),
          File(<<Stems[n], ".", "txt">>, TRUE, <<AddLine>>),
          File(<<Stems[n], ".", "move", ".", "txt">>, FALSE, <<>>),
          Dir(<<Stems[n], ".", "move">>, TRUE)}

Directories ==
    UNION {{e \in [1..n -> UNION {EntryChoices(k) : k \in 1..n}] :
                \A k \in 1..n : e[k] \in EntryChoices(k)} : n \in 0..MaxEntries}

FileSystems ==
    {[root |-> File(<<"a", ".", "move">>, TRUE, t), entries |-> <<>>] :
        t \in DenseTexts \cup SparseTexts}
    \cup {[root |-> File(<<"contract", ".", "move">>, r, t), entries |-> <<>>] :
            r \in BOOLEAN, t \in DirTexts}
    \cup {[root |-> Dir(<<"src">>, TRUE), entries |-> e] : e \in Directories}
    \cup {[root |-> Dir(<<"src">>, FALSE), entries |-> <<>>]}

NoFileSystem == [root |-> Dir(<<>>, FALSE), entries |-> <<>>]

\* values of --format: the default, the other supported one, two unsupported
Formats == {"text", "json", "xml", "JSON"}

\* the formats a run on the file system is started with: every one for a
\* directory or a small file, the default for the large single texts
FormatsFor(f) ==
    IF f.root.kind = "dir" \/ f.root.content \in DirTexts THEN Formats ELSE {"text"}

-----------------------------------------------------------------------------
(* The report *)

\* the "text" report: the header, one block per title (the HashMap's
\* iteration order is unspecified: a set), and the summary line
TextReport(found) ==
    <<"text",
      {[title |-> t,
        severity |-> found[CHOOSE k \in 1..Len(found) :
                            found[k].title = t
                            /\ \A m \in 1..(k - 1) : found[m].title # t].severity,
        locations |-> SelectSeq(found, LAMBDA v : v.title = t)] :
            t \in {found[k].title : k \in 1..Len(found)}},
      Len(found)>>

\* format_vulnerabilities
format_vulnerabilities_TextDefault(found, fmt) ==
    IF fmt = "json" THEN <<"json", found>> ELSE TextReport(found)
format_vulnerabilities(found, fmt) ==
    CASE fmt = "json" -> <<"json", found>>
      [] fmt = "text" -> TextReport(found)
      [] OTHER -> <<"Unsupported output format">>

-----------------------------------------------------------------------------
(* The run *)

Init ==
    /\ call \in {"main", "std_check"}
    /\ IF call = "main"
       THEN fs \in FileSystems /\ code = <<>> /\ pc = "main"
            /\ format \in FormatsFor(fs)
       ELSE fs = NoFileSystem /\ code \in StdTexts /\ pc = "std_loop"
            /\ format = "text"
    /\ output = <<"None">>
    /\ scans = <<>>
    /\ idx = 0
    /\ all_vulnerabilities = <<>>
    /\ result = <<"None">>
    /\ reads = <<>>
    /\ i = 0
    /\ extracted = FALSE
    /\ vulnerabilities = <<>>

std_vars == <<code, i, extracted, vulnerabilities>>

\* main, args.path not a directory: analyzer.analyze_contract(&args.path)?,
\* then the report is formatted and printed
MainFile ==
    /\ pc = "main"
    /\ fs.root.kind # "dir"
    /\ reads' = Append(reads, fs.root.path)
    /\ result' = analyze_contract(fs.root)
    /\ pc' = IF result'[1] = "Ok" THEN "done" ELSE "failed"
    /\ scans' = IF result'[1] = "Ok"
                THEN Append(scans, [source |-> fs.root.content, findings |-> result'[2]])
                ELSE scans
    /\ output' = IF result'[1] = "Ok"
                 THEN format_vulnerabilities(result'[2], format)
                 ELSE output
    /\ UNCHANGED <<call, fs, idx, all_vulnerabilities, std_vars, format>>

\* main, args.path a directory: analyze_directory up to its loop,
\* std::fs::read_dir(dir)?
ReadDir ==
    /\ pc = "main"
    /\ fs.root.kind = "dir"
    /\ IF fs.root.readable
       THEN pc' = "dir_loop" /\ idx' = 1 /\ result' = result
       ELSE pc' = "failed" /\ idx' = idx /\ result' = <<"Err", "read_dir">>
    /\ all_vulnerabilities' = <<>>
    /\ UNCHANGED <<call, fs, reads, std_vars, format, output, scans>>

\* one turn of the loop of analyze_directory on an entry the filter rejects
DirEntrySkip ==
    /\ pc = "dir_loop"
    /\ idx <= Len(fs.entries)
    /\ ~selected(fs.entries[idx])
    /\ idx' = idx + 1
    /\ UNCHANGED <<call, fs, pc, all_vulnerabilities, result, reads, std_vars, format, output, scans>>

\* one turn of the loop on a selected entry:
\* all_vulnerabilities.extend(self.analyze_contract(&path)?)
DirEntryAnalyze_Continue ==
    /\ pc = "dir_loop"
    /\ idx <= Len(fs.entries)
    /\ selected(fs.entries[idx])
    /\ reads' = Append(reads, fs.entries[idx].path)
    /\ LET r == analyze_contract(fs.entries[idx])
       IN  /\ all_vulnerabilities' =
                IF r[1] = "Ok" THEN all_vulnerabilities \o r[2] ELSE all_vulnerabilities
           /\ idx' = idx + 1
           /\ UNCHANGED <<pc, result>>
    /\ scans' = IF analyze_contract(fs.entries[idx])[1] = "Ok"
                THEN Append(scans, [source |-> fs.entries[idx].content,
                                    findings |-> analyze_contract(fs.entries[idx])[2]])
                ELSE scans
    /\ UNCHANGED <<call, fs, std_vars, format, output>>
DirEntryAnalyze_Cached ==
    /\ pc = "dir_loop"
    /\ idx <= Len(fs.entries)
    /\ selected(fs.entries[idx])
    /\ reads' = Append(reads, fs.entries[idx].path)
    /\ LET r == analyze_contract(fs.entries[idx])
           fresh == IF r[1] = "Ok"
                    THEN SelectSeq(r[2], LAMBDA v : v \notin Range(all_vulnerabilities))
                    ELSE <<>>
       IN  IF r[1] = "Ok"
           THEN /\ all_vulnerabilities' = all_vulnerabilities \o fresh
                /\ scans' = Append(scans, [source |-> fs.entries[idx].content,
                                           findings |-> fresh])
                /\ idx' = idx + 1
                /\ UNCHANGED <<pc, result>>
           ELSE /\ result' = r
                /\ pc' = "failed"
                /\ UNCHANGED <<idx, all_vulnerabilities, scans>>
    /\ UNCHANGED <<call, fs, std_vars, format, output>>
DirEntryAnalyze ==
    /\ pc = "dir_loop"
    /\ idx <= Len(fs.entries)
    /\ selected(fs.entries[idx])
    /\ reads' = Append(reads, fs.entries[idx].path)
    /\ LET r == analyze_contract(fs.entries[idx])
       IN  IF r[1] = "Ok"
           THEN /\ all_vulnerabilities' = all_vulnerabilities \o r[2]
                /\ idx' = idx + 1
                /\ UNCHANGED <<pc, result>>
           ELSE /\ result' = r
                /\ pc' = "failed"
                /\ UNCHANGED <<idx, all_vulnerabilities>>
    /\ scans' = IF analyze_contract(fs.entries[idx])[1] = "Ok"
                THEN Append(scans, [source |-> fs.entries[idx].content,
                                    findings |-> analyze_contract(fs.entries[idx])[2]])
                ELSE scans
    /\ UNCHANGED <<call, fs, std_vars, format, output>>

\* Ok(all_vulnerabilities); main formats and prints the report
DirReturn ==
    /\ pc = "dir_loop"
    /\ idx > Len(fs.entries)
    /\ result' = <<"Ok", all_vulnerabilities>>
    /\ pc' = "done"
    /\ output' = format_vulnerabilities(all_vulnerabilities, format)
    /\ UNCHANGED <<call, fs, idx, all_vulnerabilities, reads, std_vars, format, scans>>

\* str::contains("option::borrow"): every token the needle is a part of
contains_option_borrow(line) ==
    \E k \in 1..Len(line) : line[k] \in {"option::borrow", "option::borrow_mut"}

\* IncorrectStdFunctionPattern::check: one turn of its loop
StdStep_NoReset ==
    /\ pc = "std_loop"
    /\ i < Len(code)
    /\ LET line == code[i + 1]
           ext == extracted \/ contains(line, "option::extract")
       IN  /\ vulnerabilities' =
                IF ext /\ contains_option_borrow(line)
                THEN Append(vulnerabilities,
                            Vulnerability("Medium", IncorrectStdFunctionName, i + 1))
                ELSE vulnerabilities
           /\ extracted' = ext
    /\ i' = i + 1
    /\ UNCHANGED <<call, fs, pc, idx, all_vulnerabilities, result, reads, code, format, output, scans>>
StdStep_BorrowFirst ==
    /\ pc = "std_loop"
    /\ i < Len(code)
    /\ LET line == code[i + 1] IN
        IF extracted /\ contains_option_borrow(line)
        THEN /\ vulnerabilities' =
                    Append(vulnerabilities,
                           Vulnerability("Medium", IncorrectStdFunctionName, i + 1))
             /\ extracted' = contains(line, "option::extract")
        ELSE /\ vulnerabilities' = vulnerabilities
             /\ extracted' = (extracted \/ contains(line, "option::extract"))
    /\ i' = i + 1
    /\ UNCHANGED <<call, fs, pc, idx, all_vulnerabilities, result, reads, code, format, output, scans>>
StdStep ==
    /\ pc = "std_loop"
    /\ i < Len(code)
    /\ LET line == code[i + 1]
           ext == extracted \/ contains(line, "option::extract")
       IN  IF ext /\ contains_option_borrow(line)
           THEN /\ vulnerabilities' =
                    Append(vulnerabilities,
                           Vulnerability("Medium", IncorrectStdFunctionName, i + 1))
                /\ extracted' = FALSE
           ELSE /\ vulnerabilities' = vulnerabilities
                /\ extracted' = ext
    /\ i' = i + 1
    /\ UNCHANGED <<call, fs, pc, idx, all_vulnerabilities, result, reads, code, format, output, scans>>

\* IncorrectStdFunctionPattern::check: the loop is over, vulnerabilities returned
StdReturn ==
    /\ pc = "std_loop"
    /\ i >= Len(code)
    /\ result' = <<"Ok", vulnerabilities>>
    /\ pc' = "done"
    /\ UNCHANGED <<call, fs, idx, all_vulnerabilities, reads, std_vars, format, output, scans>>

Next ==
    \/ MainFile
    \/ ReadDir
    \/ DirEntrySkip
    \/ DirEntryAnalyze
    \/ DirReturn
    \/ StdStep
    \/ StdReturn

Spec == Init /\ [][Next]_vars

-----------------------------------------------------------------------------
(* What the claims speak of *)

\* a scan of one file has returned its findings
Scanned == call = "main" /\ fs.root.kind = "file" /\ pc = "done"
Text == fs.root.content
Found == result[2]

LinesOf(title) ==
    {Found[k].location.line : k \in {n \in 1..Len(Found) : Found[n].title = title}}
CountAt(title, line) ==
    Cardinality({k \in 1..Len(Found) :
                    Found[k].title = title /\ Found[k].location.line = line})
SeverityOf(title) ==
    {Found[k].severity : k \in {n \in 1..Len(Found) : Found[n].title = title}}

Suppressing ==
    LinesOf(ReentrancyName) \cup LinesOf(IntegerOverflowName)
    \cup LinesOf(UncheckedArithmeticName) \cup LinesOf(MissingErrorHandlingName)

\* line L holds an owner assertion, a state mutation, an external transfer
OwnerAt(L) == L \in 1..Len(Text) /\ owner_check_pattern(Text[L])
MutationAt(L) == L \in 1..Len(Text) /\ state_change_pattern(Text[L])
TransferAt(L) == L \in 1..Len(Text) /\ external_call_pattern(Text[L])

\* C1: in one scan no line carries both an Access Control finding and a
\* finding of Reentrancy, Integer Overflow, Unchecked Arithmetic or Missing
\* Error Handling.
Thm_C1 == Scanned => LinesOf(AccessControlName) \cap Suppressing = {}

\* a scan with an Access Control finding on one state mutation and another
\* state mutation that a suppressing detector flagged
Wit_C1 ==
    /\ Scanned
    /\ LinesOf(AccessControlName) # {}
    /\ \E L \in Suppressing : MutationAt(L)

\* C2 as stated: for a state mutation at L outside the suppression set the
\* owner-assertion search covers lines L-10..L+9 clipped at line 1, so an
\* Access Control finding is at L exactly when none of them asserts the owner.
Cex_C2 ==
    Scanned =>
        \A L \in 1..Len(Text) :
            (MutationAt(L) /\ L \notin Suppressing) =>
                (L \in LinesOf(AccessControlName)
                    <=> ~\E n \in Max(1, L - 10)..(L + 9) : OwnerAt(n))

\* C2 amended: the search covers the 20 lines that start at line
\* max(1, L-10): lines L-10..L+9 when L >= 11, lines 1..20 when L <= 10.  A
\* High Access Control finding is at L exactly when none of them asserts the
\* owner.
Thm_C2 ==
    Scanned =>
        /\ \A L \in 1..Len(Text) :
            (MutationAt(L) /\ L \notin Suppressing) =>
                (L \in LinesOf(AccessControlName)
                    <=> ~\E n \in Max(1, L - 10)..(Max(1, L - 10) + 19) : OwnerAt(n))
        /\ SeverityOf(AccessControlName) \subseteq {"High"}

\* a state mutation at L >= 11 whose only owner assertion is at L+10: the
\* finding at L is produced
Wit_C2 ==
    /\ Scanned
    /\ \E L \in 11..Len(Text) :
        /\ MutationAt(L)
        /\ OwnerAt(L + 10)
        /\ \A n \in 1..Len(Text) : OwnerAt(n) => n = L + 10
        /\ L \in LinesOf(AccessControlName)

\* C3: every Reentrancy finding at L has an external transfer on L and a
\* state mutation on one of L+1..L+4; a mutation on L itself or on L+5 or
\* later is never attributed to L.
Thm_C3 ==
    Scanned =>
        \A L \in LinesOf(ReentrancyName) :
            /\ TransferAt(L)
            /\ \E j \in (L + 1)..(L + 4) : MutationAt(j)

\* a transfer at L with a state mutation on L itself and on L+5, none on
\* L+1..L+4, and no finding at L
Wit_C3 ==
    /\ Scanned
    /\ \E L \in 1..Len(Text) :
        /\ TransferAt(L)
        /\ MutationAt(L)
        /\ MutationAt(L + 5)
        /\ L \notin LinesOf(ReentrancyName)

\* position of a detector in the order C4 states
SpecRank(title) ==
    CASE title = ReentrancyName -> 1
      [] title = IntegerOverflowName -> 2
      [] title = UncheckedArithmeticName -> 3
      [] title = MissingErrorHandlingName -> 4
      [] title = AccessControlName -> 5

\* position of a detector in the order reentrancy, integer-overflow,
\* access-control, unchecked-arithmetic, missing-error-handling
CodeRank(title) ==
    CASE title = ReentrancyName -> 1
      [] title = IntegerOverflowName -> 2
      [] title = AccessControlName -> 3
      [] title = UncheckedArithmeticName -> 4
      [] title = MissingErrorHandlingName -> 5

\* C4 as stated: in the list analyze_contract returns, every finding of an
\* earlier detector of the order reentrancy, integer-overflow,
\* unchecked-arithmetic, missing-error-handling, access-control precedes every
\* finding of a later one.
Cex_C4 ==
    Scanned =>
        \A p \in 1..Len(Found) : \A q \in (p + 1)..Len(Found) :
            SpecRank(Found[p].title) <= SpecRank(Found[q].title)

\* C4 amended: the order is reentrancy, integer-overflow, access-control,
\* unchecked-arithmetic, missing-error-handling; the findings of one detector
\* are in line order.
Thm_C4 ==
    Scanned =>
        \A p \in 1..Len(Found) : \A q \in (p + 1)..Len(Found) :
            /\ CodeRank(Found[p].title) <= CodeRank(Found[q].title)
            /\ Found[p].title = Found[q].title =>
                    Found[p].location.line <= Found[q].location.line

\* a scan in which all five detectors reported
Wit_C4 ==
    /\ Scanned
    /\ {Found[k].title : k \in 1..Len(Found)} = Range(patterns)

\* C5: for each external-transfer line L there is exactly one Critical
\* Reentrancy finding at L when one of L+1..L+4 holds a state mutation and
\* none otherwise; no other line has one, so the findings are at most as many
\* as the trigger lines.
Thm_C5 ==
    Scanned =>
        /\ \A L \in 1..Len(Text) :
            CountAt(ReentrancyName, L) =
                IF TransferAt(L) /\ \E j \in (L + 1)..(L + 4) : MutationAt(j)
                THEN 1 ELSE 0
        /\ LinesOf(ReentrancyName) \subseteq 1..Len(Text)
        /\ SeverityOf(ReentrancyName) \subseteq {"Critical"}
        /\ Cardinality({k \in 1..Len(Found) : Found[k].title = ReentrancyName})
                <= Cardinality({L \in 1..Len(Text) : TransferAt(L)})

\* a transfer with two state-mutation lines in its window and one finding
Wit_C5 ==
    /\ Scanned
    /\ \E L \in 1..Len(Text) :
        /\ TransferAt(L)
        /\ Cardinality({j \in (L + 1)..(L + 4) : MutationAt(j)}) >= 2
        /\ CountAt(ReentrancyName, L) = 1

\* C6: each of the three arithmetic detectors has one High finding at a line
\* exactly when the line matches its assignment-with-operator pattern and
\* holds no assert!; equal lines are decided alike wherever they stand, and a
\* line matching several patterns is flagged once by each detector.
Thm_C6 ==
    Scanned =>
        /\ \A L \in 1..Len(Text) :
            /\ CountAt(IntegerOverflowName, L) =
                IF arithmetic_pattern(Text[L]) /\ ~contains(Text[L], "assert!")
                THEN 1 ELSE 0
            /\ CountAt(UncheckedArithmeticName, L) =
                IF subtract_pattern(Text[L]) /\ ~contains(Text[L], "assert!")
                THEN 1 ELSE 0
            /\ CountAt(MissingErrorHandlingName, L) =
                IF division_pattern(Text[L]) /\ ~contains(Text[L], "assert!")
                THEN 1 ELSE 0
            /\ Text[L] = AddLine =>
                /\ CountAt(IntegerOverflowName, L) = 1
                /\ CountAt(UncheckedArithmeticName, L) = 0
                /\ CountAt(MissingErrorHandlingName, L) = 0
            /\ Text[L] = MixedLine =>
                /\ CountAt(IntegerOverflowName, L) = 1
                /\ CountAt(UncheckedArithmeticName, L) = 1
                /\ CountAt(MissingErrorHandlingName, L) = 1
            /\ Text[L] \in {GuardedAddLine, CompoundAddLine, UnterminatedAddLine} =>
                CountAt(IntegerOverflowName, L) = 0
        /\ \A L \in 1..Len(Text) : \A M \in 1..Len(Text) :
            Text[L] = Text[M] =>
                \A t \in {IntegerOverflowName, UncheckedArithmeticName,
                          MissingErrorHandlingName} :
                    CountAt(t, L) = CountAt(t, M)
        /\ SeverityOf(IntegerOverflowName) \cup SeverityOf(UncheckedArithmeticName)
                \cup SeverityOf(MissingErrorHandlingName) \subseteq {"High"}

\* a line flagged by all three detectors beside a guarded addition that is
\* flagged by none
Wit_C6 ==
    /\ Scanned
    /\ \E L \in 1..Len(Text) : \E M \in 1..Len(Text) :
        /\ Text[L] = MixedLine
        /\ L \in LinesOf(IntegerOverflowName) \cap LinesOf(UncheckedArithmeticName)
                \cap LinesOf(MissingErrorHandlingName)
        /\ Text[M] = GuardedAddLine
        /\ M \notin LinesOf(IntegerOverflowName)

\* a directory scan is under way or over
DirScan == call = "main" /\ fs.root.kind = "dir"

\* a regular file whose name ends in ".move"
MoveFile(e) ==
    /\ e.kind = "file"
    /\ Len(e.path) >= 3
    /\ e.path[Len(e.path)] = "move"
    /\ e.path[Len(e.path) - 1] = "."

\* the positions of the entries that are .move files and cannot be read
UnreadableAt == {k \in 1..Len(fs.entries) : MoveFile(fs.entries[k]) /\ ~fs.entries[k].readable}
FirstUnreadable == CHOOSE k \in UnreadableAt : \A m \in UnreadableAt : k <= m

\* C7: in a directory scan a read failure on a selected file aborts the scan
\* at once: the scan never goes past that file, it never returns Ok, what it
\* returns is the error and carries no finding, and no later file is read.
Thm_C7 ==
    (DirScan /\ fs.root.readable /\ UnreadableAt # {}) =>
        /\ idx <= FirstUnreadable
        /\ pc # "done"
        /\ result \in {<<"None">>, <<"Err", "Failed to read file">>}
        /\ Len(reads) <=
                Cardinality({k \in 1..FirstUnreadable : MoveFile(fs.entries[k])})
        /\ pc = "failed" =>
                /\ result = <<"Err", "Failed to read file">>
                /\ idx = FirstUnreadable
                /\ reads[Len(reads)] = fs.entries[FirstUnreadable].path

\* the scan failed on an unreadable file after it had collected findings and
\* before a readable .move file
Wit_C7 ==
    /\ DirScan
    /\ pc = "failed"
    /\ all_vulnerabilities # <<>>
    /\ \E k \in (idx + 1)..Len(fs.entries) :
            MoveFile(fs.entries[k]) /\ fs.entries[k].readable

\* the findings of the .move files among the entries from position n on, in
\* enumeration order
RECURSIVE FindingsFrom(_)
FindingsFrom(n) ==
    IF n > Len(fs.entries) THEN <<>>
    ELSE (IF MoveFile(fs.entries[n])
          THEN RunPatterns(fs.entries[n].content, 1) ELSE <<>>)
         \o FindingsFrom(n + 1)

\* the paths of the .move files among the entries before position n
RECURSIVE MovePathsBefore(_)
MovePathsBefore(n) ==
    IF n <= 1 THEN <<>>
    ELSE MovePathsBefore(n - 1)
         \o (IF MoveFile(fs.entries[n - 1]) THEN <<fs.entries[n - 1].path>> ELSE <<>>)

\* C8: a directory scan reads exactly the entries that are files with the
\* extension move, in enumeration order, and returns the concatenation of
\* their findings; no other entry is read, and only a .move file (or the
\* directory itself) makes the scan fail.
Thm_C8 ==
    DirScan =>
        /\ pc = "dir_loop" => reads = MovePathsBefore(idx)
        /\ pc = "done" =>
                /\ reads = MovePathsBefore(Len(fs.entries) + 1)
                /\ result = <<"Ok", FindingsFrom(1)>>
        /\ (pc = "failed" /\ fs.root.readable) =>
                /\ MoveFile(fs.entries[idx])
                /\ reads = MovePathsBefore(idx + 1)

\* a finished scan of a directory with two .move files that have findings, a
\* .txt file that would have findings, and findings returned
Wit_C8 ==
    /\ DirScan
    /\ pc = "done"
    /\ Len(result[2]) >= 3
    /\ \E k \in 1..Len(fs.entries) :
            /\ ~MoveFile(fs.entries[k])
            /\ fs.entries[k].content = <<AddLine>>
    /\ \E k \in 1..Len(fs.entries) : \E m \in (k + 1)..Len(fs.entries) :
            /\ MoveFile(fs.entries[k]) /\ MoveFile(fs.entries[m])
            /\ fs.entries[k].content = <<MutateLine, SubLine>>
            /\ fs.entries[m].content = <<AddLine>>

\* has an extract call, a borrow call
ExtractIn(line) == contains(line, "option::extract")
BorrowIn(line) == contains_option_borrow(line)

\* std_check: the line of the m-th finding pushed so far (0 before the first)
StdLine(m) == IF m = 0 THEN 0 ELSE vulnerabilities[m].location.line

\* C9, its consequences: each finding is a Medium finding on a borrow line,
\* after the finding before it, with an extract line after that finding and
\* not after its own line; the findings are at most as many as the extract
\* lines read; the flag is set exactly when an extract line read so far has
\* no finding at or after it.
StdInv ==
    call = "std_check" =>
        /\ \A m \in 1..Len(vulnerabilities) :
            /\ vulnerabilities[m].severity = "Medium"
            /\ vulnerabilities[m].title = IncorrectStdFunctionName
            /\ StdLine(m) \in (StdLine(m - 1) + 1)..i
            /\ BorrowIn(code[StdLine(m)])
            /\ \E e \in (StdLine(m - 1) + 1)..StdLine(m) : ExtractIn(code[e])
        /\ Len(vulnerabilities) <= Cardinality({e \in 1..i : ExtractIn(code[e])})
        /\ extracted <=>
                \E e \in (StdLine(Len(vulnerabilities)) + 1)..i : ExtractIn(code[e])

\* C9, its transitions, for a line with one kind of call or none: an
\* extract line leaves the flag set and emits nothing; a borrow line emits one
\* finding at that line and clears the flag when the flag is set, and changes
\* nothing when it is not; any other line changes nothing.
StdTransition ==
    (call = "std_check" /\ pc = "std_loop" /\ i < Len(code) /\ i' = i + 1) =>
        LET line == code[i + 1] IN
        /\ (ExtractIn(line) /\ ~BorrowIn(line)) =>
                extracted' /\ vulnerabilities' = vulnerabilities
        /\ (BorrowIn(line) /\ ~ExtractIn(line) /\ extracted) =>
                /\ ~extracted'
                /\ vulnerabilities' =
                    Append(vulnerabilities,
                           Vulnerability("Medium", IncorrectStdFunctionName, i + 1))
        /\ (BorrowIn(line) /\ ~ExtractIn(line) /\ ~extracted) =>
                ~extracted' /\ vulnerabilities' = vulnerabilities
        /\ (~BorrowIn(line) /\ ~ExtractIn(line)) =>
                extracted' = extracted /\ vulnerabilities' = vulnerabilities

\* C9: the incorrect-standard-function-usage detector is a two-state
\* automaton over the lines, started idle; every finding is preceded by an
\* extract call no earlier finding has consumed, and the findings never
\* outnumber the extract lines.
Thm_C9 == []StdInv /\ [][StdTransition]_vars

\* a finished run with an extract line, the borrow line that gave the one
\* finding, and a later borrow line that gave none
Wit_C9 ==
    /\ call = "std_check"
    /\ pc = "done"
    /\ Len(vulnerabilities) = 1
    /\ result = <<"Ok", vulnerabilities>>
    /\ \E k \in (StdLine(1) + 1)..Len(code) : BorrowIn(code[k])
    /\ \E k \in 1..(StdLine(1) - 1) : ExtractIn(code[k]) /\ ~BorrowIn(code[k])

\* C10: every finding names in location.file the file it was found in: a
\* finding a scan returns names a file the scan has read.
Cex_C10 ==
    (call = "main" /\ pc = "done") =>
        \A k \in 1..Len(result[2]) : result[2][k].location.file \in Range(reads)

\* the line matches the trigger of the detector of that title
TriggerIn(title, line) ==
    CASE title = ReentrancyName -> external_call_pattern(line)
      [] title = IntegerOverflowName -> arithmetic_pattern(line)
      [] title = UncheckedArithmeticName -> subtract_pattern(line)
      [] title = MissingErrorHandlingName -> division_pattern(line)
      [] title = AccessControlName -> state_change_pattern(line)
      [] title = IncorrectStdFunctionName -> contains_option_borrow(line)

\* the finding is on a line of the text, the line that triggered it, column 0
WellLocated(v, text) ==
    /\ v.location.line \in 1..Len(text)
    /\ v.location.column = 0
    /\ TriggerIn(v.title, text[v.location.line])

\* C11: for every finding on a text of N lines, location.line is the 1-based
\* position of the line that triggered it, within 1..N, and location.column
\* is 0; an empty text yields no finding.
Thm_C11 ==
    /\ Scanned =>
        /\ \A k \in 1..Len(Found) : WellLocated(Found[k], Text)
        /\ Text = <<>> => Found = <<>>
    /\ call = "std_check" =>
        /\ \A m \in 1..Len(vulnerabilities) : WellLocated(vulnerabilities[m], code)
        /\ (pc = "done" /\ code = <<>>) => result = <<"Ok", <<>>>>

\* a scan of a text of several lines with a finding on its first line and
\* one on its last
Wit_C11 ==
    /\ Scanned
    /\ Len(Text) >= 3
    /\ \E k \in 1..Len(Found) : Found[k].location.line = 1
    /\ \E k \in 1..Len(Found) : Found[k].location.line = Len(Text)

\* how many findings of the list carry the title
CountOf(title, found) == Cardinality({k \in 1..Len(found) : found[k].title = title})

\* C14: the findings of the four detectors that AccessControlPattern.check
\* runs for its suppression set do not leak into what it returns: in the
\* result of analyze_contract each (detector, line) pair appears at most once,
\* each detector's findings are as many as its own check returns, and the
\* total is the sum of the five counts.
Thm_C14 ==
    Scanned =>
        /\ \A k \in 1..Len(Found) : \A m \in 1..Len(Found) :
            (Found[k].title = Found[m].title
                /\ Found[k].location.line = Found[m].location.line) => k = m
        /\ CountOf(ReentrancyName, Found) = Len(ReentrancyCheck(Text))
        /\ CountOf(IntegerOverflowName, Found) = Len(IntegerOverflowCheck(Text))
        /\ CountOf(UncheckedArithmeticName, Found) = Len(UncheckedArithmeticCheck(Text))
        /\ CountOf(MissingErrorHandlingName, Found) = Len(MissingErrorHandlingCheck(Text))
        /\ CountOf(AccessControlName, Found) =
                Cardinality({L \in 1..Len(Text) :
                    /\ state_change_pattern(Text[L])
                    /\ L \notin Suppressing
                    /\ ~has_owner_check(Text, L - 1)})
        /\ Len(Found) =
                CountOf(ReentrancyName, Found) + CountOf(IntegerOverflowName, Found)
                + CountOf(UncheckedArithmeticName, Found)
                + CountOf(MissingErrorHandlingName, Found)
                + CountOf(AccessControlName, Found)

\* a scan with an Access Control finding whose suppression set was fed by a
\* Reentrancy finding and an arithmetic finding
Wit_C14 ==
    /\ Scanned
    /\ CountOf(AccessControlName, Found) >= 1
    /\ CountOf(ReentrancyName, Found) >= 1
    /\ CountOf(IntegerOverflowName, Found) + CountOf(UncheckedArithmeticName, Found)
            + CountOf(MissingErrorHandlingName, Found) >= 1
    /\ \E L \in Suppressing : MutationAt(L)

\* C15, on one turn of the loop: a line with an extract call and a borrow
\* call gives one Medium finding at that line and leaves the flag clear,
\* whatever the flag was and whichever call comes first in the line.
BothTransition ==
    (call = "std_check" /\ pc = "std_loop" /\ i < Len(code) /\ i' = i + 1
        /\ ExtractIn(code[i + 1]) /\ BorrowIn(code[i + 1])) =>
            /\ vulnerabilities' =
                    Append(vulnerabilities,
                           Vulnerability("Medium", IncorrectStdFunctionName, i + 1))
            /\ ~extracted'

\* C15, on the findings: every line read that has both calls carries exactly
\* one finding.
BothInv ==
    call = "std_check" =>
        \A L \in 1..i :
            (ExtractIn(code[L]) /\ BorrowIn(code[L])) =>
                Cardinality({m \in 1..Len(vulnerabilities) :
                                vulnerabilities[m].location.line = L}) = 1

\* C15: in the incorrect-standard-function-usage detector a line that holds
\* both an extract call and a borrow call always produces a finding at that
\* line and leaves the automaton idle.
Thm_C15 == []BothInv /\ [][BothTransition]_vars

\* the detector was idle, then read a line with the borrow call before the
\* extract call: the finding is at that line and the detector is idle
Wit_C15 ==
    /\ call = "std_check"
    /\ i >= 1
    /\ code[i] = BorrowExtractLine
    /\ \A L \in 1..(i - 1) : ~ExtractIn(code[L])
    /\ Len(vulnerabilities) = 1
    /\ vulnerabilities[1].location.line = i
    /\ ~extracted

Thm_C13 ==
    call = "main" =>
        /\ (pc = "done" /\ format \notin {"text", "json"}) =>
                output = <<"Unsupported output format">>
        /\ pc = "done" => (result[1] = "Ok" /\ output # <<"None">>)
        /\ pc # "done" => output = <<"None">>

\* a directory scan that found something, run with an unsupported mode, has
\* ended with the fallback printed
Wit_C13 ==
    /\ DirScan
    /\ pc = "done"
    /\ format = "JSON"
    /\ result[2] # <<>>
    /\ output = <<"Unsupported output format">>

====
